---------------------------- MODULE Spec2Model ----------------------------
(***************************************************************************)
(* A model of the TARS conversation engine: the Memory Store               *)
(* (src/src/core/memory_store.py), the provider handlers and the           *)
(* multi-provider Router (src/src/ai/llm_handler.py), the personality      *)
(* pipeline (src/src/personality/response_generator.py) and the engine     *)
(* that composes them (src/src/core/tars_engine.py).                       *)
(*                                                                         *)
(* Texts are sequences of symbols.  A symbol is a character ("H", "i") or  *)
(* a whole fixed phrase of the program ("<honest>", "<err:openai>").       *)
(***************************************************************************)
EXTENDS Integers, Sequences, FiniteSets, TLC

VARIABLES
    conversations,           \* MemoryStore.conversations: id -> messages
    active_conversation_id,  \* MemoryStore.active_conversation_id
    disk,                    \* the files of persist_dir: id -> record
    max_messages,            \* MemoryStore.max_messages
    auto_save,               \* MemoryStore.auto_save
    persist_dir,             \* TRUE iff MemoryStore.persist_dir is set
    config,                  \* TARSConfig: provider, credentials, levels
    gemini_available,        \* llm_handler.GEMINI_AVAILABLE
    primary_handler,         \* MultiProviderLLM.primary_handler (its kind)
    fallback_handlers,       \* MultiProviderLLM.fallback_handlers (kinds)
    injected,                \* TRUE once the handlers were replaced by hand
    humor_level,             \* ResponseGenerator.humor.humor_level, percent
    honesty_level,           \* ResponseGenerator.honesty.honesty_level
    use_rag,                 \* TARSEngine.use_rag
    rag_system,              \* TRUE iff TARSEngine.rag_system is not None
    turns,                   \* completed chat turns since the conversation
                             \* was empty; -1 once anything else wrote to it
    gen,                     \* the chat_stream generator a consumer holds
    loaded_datasets,         \* RAGSystem._loaded_datasets: ids marked indexed
    collection,              \* ids of the documents in the vector store
    directory,               \* the dataset directory: file |-> its examples
    indexed_dir,             \* the directory as index_directory last saw it
    now,                     \* the wall clock, in seconds
    steps,                   \* number of operations performed so far
    faults,                  \* number of failed file writes so far
    last                     \* what the last operation did and returned

StoreVars == <<conversations, active_conversation_id, disk, max_messages,
               auto_save, persist_dir>>
RouterVars == <<config, gemini_available, primary_handler, fallback_handlers,
                injected>>

PersonaVars == <<humor_level, honesty_level>>
RagVars == <<loaded_datasets, collection, directory, indexed_dir>>
EngineVars == <<use_rag, rag_system, turns, gen, RagVars>>

vars == <<StoreVars, RouterVars, PersonaVars, EngineVars, now, steps, faults,
          last>>

-----------------------------------------------------------------------------
(* Bounds of the model.                                                    *)

MaxM == 2          \* max_messages ranges over 1..MaxM
MaxClock == 1      \* the clock runs over 0..MaxClock
MaxSteps == 3      \* operations per behaviour
MaxFaults == 1     \* failed file writes per behaviour
MaxFallbacks == 2  \* length of a hand-made fallback list
MaxEngineM == 4    \* the larger max_messages of the engine's store
MaxTurns == 2      \* engine operations per behaviour
MaxChunks == 1     \* chunks a backend sends in one stream

-----------------------------------------------------------------------------
(* Python values and helpers.                                              *)

None == "None"

\* Python truthiness of an optional string.
Truthy(x) == x # None /\ x # ""

\* s[-n:]
PyTail(s, n) ==
    IF n = 0 THEN s
    ELSE IF n < 0 THEN SubSeq(s, (0 - n) + 1, Len(s))
    ELSE IF n >= Len(s) THEN s
    ELSE SubSeq(s, Len(s) - n + 1, Len(s))

\* s[:-1]
PyInit(s) == IF Len(s) = 0 THEN <<>> ELSE SubSeq(s, 1, Len(s) - 1)

\* dict assignment d[k] = v and del d[k]
Put(d, k, v) == [x \in (DOMAIN d) \cup {k} |-> IF x = k THEN v ELSE d[x]]
Del(d, k) == [x \in (DOMAIN d) \ {k} |-> d[x]]
EmptyDict == [x \in {} |-> <<>>]

-----------------------------------------------------------------------------
(* Memory Store.                                                           *)

Roles == {"user", "assistant"}

\* Message(role=role, content=content, metadata=metadata or {}): the
\* timestamp is the time of construction; no caller passes a metadata, so
\* that it is the empty dict, written <<>>
Message(role, content) ==
    [role |-> role, content |-> content, timestamp |-> now,
     metadata |-> <<>>]

\* Message.to_dict
to_dict(msg) == [role |-> msg.role, content |-> msg.content]

\* f"conv_{datetime.now().strftime('%Y%m%d_%H%M%S')}"
TimeId(t) == "conv_" \o ToString(t)

\* The store as one value, so that the operations compose.
TheStore == [conversations |-> conversations,
             active |-> active_conversation_id,
             disk |-> disk]

\* The result of a store operation: the store after it, whether an
\* exception escaped it, and the conversation it returns (by id).
Ret(st, raised, conv) == [st |-> st, raised |-> raised, conv |-> conv]

\* Outcomes of one write of a conversation file: the write succeeds, open()
\* fails and leaves the file as it was, or the write fails after open() has
\* truncated the file.
IoOutcomes == {"ok", "fail_open", "fail_write"}
Corrupt == [id |-> None, messages |-> <<>>]

\* Mutant: the timestamp is not written to the file.
asdict_NoTimestamp(msg) ==
    [role |-> msg.role, content |-> msg.content, metadata |-> msg.metadata]

\* dataclasses.asdict(msg) as json.dump writes it
asdict(msg) ==
    [role |-> msg.role, content |-> msg.content,
     timestamp |-> msg.timestamp, metadata |-> msg.metadata]

\* The Message that _load_conversations builds from one entry of
\* data["messages"]: role and content must be there, a missing timestamp
\* is the time of loading and a missing metadata the empty dict.
loaded_message(msg_data) ==
    [role |-> msg_data.role, content |-> msg_data.content,
     timestamp |-> IF "timestamp" \in DOMAIN msg_data
                   THEN msg_data.timestamp ELSE now,
     metadata |-> IF "metadata" \in DOMAIN msg_data
                  THEN msg_data.metadata ELSE <<>>]

\* MemoryStore._save_conversation
save_conversation(st, cid, o) ==
    IF ~persist_dir THEN Ret(st, FALSE, cid)
    ELSE IF o = "ok"
         THEN Ret([st EXCEPT !.disk = Put(@, cid,
                       [id |-> cid,
                        messages |-> [i \in 1..Len(st.conversations[cid]) |->
                                         asdict(st.conversations[cid][i])]])],
                  FALSE, cid)
    ELSE IF o = "fail_open" THEN Ret(st, TRUE, cid)
    ELSE Ret([st EXCEPT !.disk = Put(@, cid, Corrupt)], TRUE, cid)

\* Mutant: the new conversation does not become the active one.
create_conversation_KeepsActive(st, conversation_id, o) ==
    LET cid == IF conversation_id = None THEN TimeId(now) ELSE conversation_id
        st1 == [st EXCEPT !.conversations = Put(@, cid, <<>>)]
    IN  IF auto_save THEN save_conversation(st1, cid, o)
        ELSE Ret(st1, FALSE, cid)

\* MemoryStore.create_conversation
create_conversation(st, conversation_id, o) ==
    LET cid == IF conversation_id = None THEN TimeId(now) ELSE conversation_id
        st1 == [st EXCEPT !.conversations = Put(@, cid, <<>>), !.active = cid]
    IN  IF auto_save THEN save_conversation(st1, cid, o)
        ELSE Ret(st1, FALSE, cid)

\* MemoryStore.get_conversation
get_conversation(st, conversation_id) ==
    LET conv_id == IF Truthy(conversation_id) THEN conversation_id
                   ELSE st.active
    IN  IF conv_id = None THEN None
        ELSE IF conv_id \in DOMAIN st.conversations THEN conv_id
        ELSE None

\* MemoryStore.get_or_create_active
get_or_create_active(st, o) ==
    IF Truthy(st.active) /\ st.active \in DOMAIN st.conversations
    THEN Ret(st, FALSE, st.active)
    ELSE create_conversation(st, None, o)

\* Mutant: the trim keeps the oldest messages.
TrimMessages_KeepOldest(msgs) ==
    IF Len(msgs) > max_messages THEN SubSeq(msgs, 1, max_messages) ELSE msgs


\* Mutant: the trim keeps one message too many.
TrimMessages_OffByOne(msgs) ==
    IF Len(msgs) > max_messages + 1 THEN PyTail(msgs, max_messages + 1) ELSE msgs

\* The trim of MemoryStore.add_message
TrimMessages(msgs) ==
    IF Len(msgs) > max_messages THEN PyTail(msgs, max_messages) ELSE msgs

\* MemoryStore.add_message; io[1] is the outcome of the write made when a
\* conversation has to be created, io[2] of the write of the message.
add_message(st, role, content, conversation_id, io) ==
    LET c0 == get_conversation(st, conversation_id)
        r1 == IF c0 = None THEN create_conversation(st, None, io[1])
              ELSE Ret(st, FALSE, c0)
    IN  IF r1.raised THEN r1
        ELSE LET cid == r1.conv
                 msgs == Append(r1.st.conversations[cid], Message(role, content))
                 st2 == [r1.st EXCEPT !.conversations[cid] = TrimMessages(msgs)]
             IN  IF auto_save THEN save_conversation(st2, cid, io[2])
                 ELSE Ret(st2, FALSE, cid)

\* Mutant: the history is returned newest first.
Conversation_get_history_Reversed(msgs, max_msgs) ==
    LET kept == IF max_msgs # 0 THEN PyTail(msgs, max_msgs) ELSE msgs
    IN  [i \in 1..Len(kept) |-> to_dict(kept[Len(kept) + 1 - i])]

\* Conversation.get_history; max_msgs = 0 stands for both 0 and None,
\* which `if max_messages` does not tell apart
Conversation_get_history(msgs, max_msgs) ==
    LET kept == IF max_msgs # 0 THEN PyTail(msgs, max_msgs) ELSE msgs
    IN  [i \in 1..Len(kept) |-> to_dict(kept[i])]

\* MemoryStore.get_history
get_history(st, conversation_id, max_msgs) ==
    LET c == get_conversation(st, conversation_id)
    IN  IF c = None THEN <<>>
        ELSE Conversation_get_history(st.conversations[c], max_msgs)

\* MemoryStore.clear_conversation
clear_conversation(st, conversation_id, o) ==
    LET c == get_conversation(st, conversation_id)
    IN  IF c = None THEN Ret(st, FALSE, None)
        ELSE LET st1 == [st EXCEPT !.conversations[c] = <<>>]
             IN  IF auto_save THEN save_conversation(st1, c, o)
                 ELSE Ret(st1, FALSE, c)

\* Mutant: the active pointer is left at the deleted conversation.
delete_conversation_KeepsActive(st, conversation_id) ==
    IF conversation_id \in DOMAIN st.conversations
    THEN [st EXCEPT !.conversations = Del(@, conversation_id),
                    !.disk = IF persist_dir THEN Del(@, conversation_id) ELSE @]
    ELSE st


\* MemoryStore.delete_conversation
delete_conversation(st, conversation_id) ==
    IF conversation_id \in DOMAIN st.conversations
    THEN [st EXCEPT !.conversations = Del(@, conversation_id),
                    !.disk = IF persist_dir THEN Del(@, conversation_id) ELSE @,
                    !.active = IF @ = conversation_id THEN None ELSE @]
    ELSE st


\* MemoryStore._load_conversations: every readable record of the directory,
\* keyed by the id it holds; a malformed record is skipped.
load_conversations(d) ==
    LET good == {k \in DOMAIN d : d[k] # Corrupt}
        file(c) == d[CHOOSE k \in good : d[k].id = c]
    IN  [c \in {d[k].id : k \in good} |->
            [i \in 1..Len(file(c).messages) |->
                loaded_message(file(c).messages[i])]]


-----------------------------------------------------------------------------
(* Texts.                                                                  *)

Whitespace == {" "}

\* str.strip()
RECURSIVE lstrip(_)
lstrip(t) ==
    IF t # <<>> /\ Head(t) \in Whitespace THEN lstrip(Tail(t)) ELSE t

RECURSIVE rstrip(_)
rstrip(t) ==
    IF t # <<>> /\ t[Len(t)] \in Whitespace
    THEN rstrip(SubSeq(t, 1, Len(t) - 1)) ELSE t

strip(t) == rstrip(lstrip(t))

-----------------------------------------------------------------------------
(* Provider handlers and the multi-provider Router.                        *)

\* The concrete handlers, and any other subclass of BaseLLMHandler.
ConcreteKinds == {"openai", "lm_studio", "ollama", "gemini"}
HandlerKinds == ConcreteKinds \cup {"custom"}

\* What a backend does when called: it answers with a text, or the call
\* fails (network error, auth error, timeout, malformed response).
RawTexts == {<<"H", "i">>, <<" ">>}
BackendOutcomes ==
    [ok : {TRUE}, text : RawTexts] \cup {[ok |-> FALSE, text |-> <<>>]}

\* The in-character error string of each concrete handler's generate.
ErrorText(kind) ==
    IF kind \in {"openai", "lm_studio"} THEN <<"<snag>">>
    ELSE IF kind = "ollama" THEN <<"<ollama not responding>">>
    ELSE <<"<gemini difficult>">>

Returned(text) == [raised |-> FALSE, text |-> text]
Raised == [raised |-> TRUE, text |-> <<>>]

\* Mutant: a concrete handler without its try/except.
handler_generate_NoCatch(kind, o) ==
    IF o.ok THEN Returned(IF kind \in ConcreteKinds THEN strip(o.text)
                          ELSE o.text)
    ELSE Raised

\* OpenAIHandler.generate, OllamaHandler.generate, GeminiHandler.generate:
\* the whole body is inside try/except Exception.  Any other handler
\* implements the abstract BaseLLMHandler.generate and may raise.
handler_generate(kind, o) ==
    IF kind \in ConcreteKinds
    THEN IF o.ok THEN Returned(strip(o.text)) ELSE Returned(ErrorText(kind))
    ELSE IF o.ok THEN Returned(o.text) ELSE Raised

AllDown == <<"<all neural pathways offline>">>

\* Mutant: the loop does not return at the first fallback that answers; the
\* last answer wins.
RECURSIVE fallback_loop_NoReturn(_, _, _, _)
fallback_loop_NoReturn(handlers, outs, i, invoked) ==
    IF i > Len(handlers)
    THEN [raised |-> FALSE, text |-> AllDown, invoked |-> invoked]
    ELSE LET r == handler_generate(handlers[i], outs[i])
             rest == fallback_loop_NoReturn(handlers, outs, i + 1,
                                            Append(invoked, i))
         IN  IF ~r.raised /\ rest.text = AllDown
             THEN [raised |-> FALSE, text |-> r.text, invoked |-> rest.invoked]
             ELSE rest

\* Mutant: the exception of the last fallback escapes the loop.
RECURSIVE fallback_loop_Reraise(_, _, _, _)
fallback_loop_Reraise(handlers, outs, i, invoked) ==
    IF i > Len(handlers)
    THEN [raised |-> i > 1, text |-> AllDown, invoked |-> invoked]
    ELSE LET r == handler_generate(handlers[i], outs[i])
         IN  IF ~r.raised
             THEN [raised |-> FALSE, text |-> r.text,
                   invoked |-> Append(invoked, i)]
             ELSE fallback_loop_Reraise(handlers, outs, i + 1,
                                        Append(invoked, i))

\* The fallback loop of MultiProviderLLM.generate, from fallback i on;
\* invoked lists the handlers called so far (0 is the primary handler).
RECURSIVE fallback_loop(_, _, _, _)
fallback_loop(handlers, outs, i, invoked) ==
    IF i > Len(handlers)
    THEN [raised |-> FALSE, text |-> AllDown, invoked |-> invoked]
    ELSE LET r == handler_generate(handlers[i], outs[i])
         IN  IF ~r.raised
             THEN [raised |-> FALSE, text |-> r.text,
                   invoked |-> Append(invoked, i)]
             ELSE fallback_loop(handlers, outs, i + 1, Append(invoked, i))

\* MultiProviderLLM.generate; outs.primary and outs.fallbacks[i] are what
\* the backends do if they are called.
MultiProviderLLM_generate(primary, fallbacks, outs) ==
    LET p == handler_generate(primary, outs.primary)
    IN  IF ~p.raised
        THEN [raised |-> FALSE, text |-> p.text, invoked |-> <<0>>]
        ELSE fallback_loop(fallbacks, outs.fallbacks, 1, <<0>>)

Providers == {"openai", "gemini", "lm_studio", "ollama"}

\* TARSConfig.tars_humor_level and tars_honesty_level, in percent.
DefaultHumor == 60
DefaultHonesty == 90
providers_to_try == <<"lm_studio", "ollama", "gemini", "openai">>

\* Mutant: the handler of openai is built without looking at its key.
create_handler_for_provider_NoCredentials(provider, cfg) ==
    IF provider = "lm_studio" THEN "lm_studio"
    ELSE IF provider = "ollama" THEN "ollama"
    ELSE IF provider = "gemini" /\ gemini_available /\ cfg.gemini_api_key
         THEN "gemini"
    ELSE IF provider = "openai" THEN "openai"
    ELSE None

\* MultiProviderLLM._create_handler_for_provider
create_handler_for_provider(provider, cfg) ==
    IF provider = "lm_studio" THEN "lm_studio"
    ELSE IF provider = "ollama" THEN "ollama"
    ELSE IF provider = "gemini" /\ gemini_available /\ cfg.gemini_api_key
         THEN "gemini"
    ELSE IF provider = "openai" /\ cfg.openai_api_key THEN "openai"
    ELSE None

\* MultiProviderLLM._setup_fallbacks, from entry i of providers_to_try on;
\* broken holds the providers whose handler constructor raises.
RECURSIVE setup_fallbacks(_, _, _)
setup_fallbacks(cfg, broken, i) ==
    IF i > Len(providers_to_try) THEN <<>>
    ELSE LET provider == providers_to_try[i]
             rest == setup_fallbacks(cfg, broken, i + 1)
             handler == create_handler_for_provider(provider, cfg)
         IN  IF provider # cfg.llm_provider /\ provider \notin broken
                /\ handler # None
             THEN <<handler>> \o rest
             ELSE rest

\* TARSConfig: the fields the model reads.  The keys are TRUE when set.
Configs ==
    [llm_provider : Providers, openai_api_key : BOOLEAN,
     gemini_api_key : BOOLEAN, tars_humor_level : {DefaultHumor},
     tars_honesty_level : {DefaultHonesty}]
DefaultConfig ==
    [llm_provider |-> "lm_studio", openai_api_key |-> FALSE,
     gemini_api_key |-> FALSE, tars_humor_level |-> DefaultHumor,
     tars_honesty_level |-> DefaultHonesty]

\* MultiProviderLLM.__init__
InitRouter ==
    /\ config \in Configs
    /\ gemini_available \in BOOLEAN
    /\ primary_handler = config.llm_provider
    /\ \E broken \in SUBSET (Providers \ {config.llm_provider}) :
          fallback_handlers = setup_fallbacks(config, broken, 1)
    /\ injected = FALSE

\* The router of a store-only run.
RouterDefault ==
    /\ config = DefaultConfig
    /\ gemini_available = FALSE
    /\ primary_handler = "lm_studio"
    /\ fallback_handlers = <<"ollama">>
    /\ injected = FALSE


-----------------------------------------------------------------------------
(* Personality pipeline.  Levels are percentages; a draw of random.random() *)
(* is the integer part of a hundred times its value, 0..99, so that         *)
(* random() < p is draw < 100 p for every p the program compares with.      *)

\* str.lower() of one symbol
Lower(c) ==
    IF c = "H" THEN "h" ELSE IF c = "Bye" THEN "bye" ELSE c

lower(t) == [i \in 1..Len(t) |-> Lower(t[i])]

\* response[0].lower() + response[1:]; raises IndexError on the empty text
lower_first(t) ==
    IF t = <<>> THEN Raised ELSE Returned(<<Lower(t[1])>> \o Tail(t))

\* No chat_stream generator is alive.  Of a live one, pc is the yield it is
\* suspended at, h the state of the handler's generator, full_response and
\* cue_light its locals, delivered the chunks it has yielded so far, n the
\* number of chunks the backend has sent.
NoGen ==
    [pc |-> "none", h |-> "none", path |-> "none", full_response |-> <<>>,
     cue_light |-> <<>>, delivered |-> <<>>, n |-> 0]

\* A RAGSystem built with auto_load_datasets = False over an empty
\* collection; the dataset directory does not exist.
NotIndexed == [seen |-> FALSE, dir |-> <<>>]
RagDefault ==
    /\ loaded_datasets = {}
    /\ collection = {}
    /\ directory = <<>>
    /\ indexed_dir = NotIndexed

\* The engine is in the state EngineDefault in runs that do not use it.
EngineDefault ==
    /\ humor_level = DefaultHumor
    /\ honesty_level = DefaultHonesty
    /\ use_rag = FALSE
    /\ rag_system = FALSE
    /\ turns = 0
    /\ gen = NoGen
    /\ RagDefault

\* CueLight.maybe_add
maybe_add(probability, draw) ==
    IF draw < probability THEN <<" ", "<cue light>">> ELSE <<>>

\* Mutant: sarcasm is added when the draw equals the level as well.
should_add_sarcasm_Inclusive(draw) == draw <= humor_level


\* HumorController.should_add_sarcasm
should_add_sarcasm(draw) == draw < humor_level

\* HumorController.add_humor; d.sarcasm and d.humor_type are its two draws
add_humor(response, d) ==
    IF ~should_add_sarcasm(d.sarcasm) THEN Returned(response)
    ELSE IF d.humor_type < 30 /\ humor_level > 50
         THEN LET l == lower_first(response)
              IN  IF l.raised THEN Raised
                  ELSE Returned(<<"<sarcastic prefix>">> \o l.text)
    ELSE IF d.humor_type < 60
         THEN Returned(response \o <<"<sarcastic suffix>">>)
    ELSE IF d.humor_type < 80 /\ humor_level > 70
         THEN Returned(response \o <<" ", "<mission reference>">>)
    ELSE Returned(response)

\* HonestyModule.format_with_honesty; d.honest is its draw
format_with_honesty(response, certainty, d) ==
    IF certainty < 70 /\ honesty_level > 80
    THEN LET l == lower_first(response)
         IN  IF l.raised THEN Raised
             ELSE Returned(<<"<hedging phrase>">> \o l.text)
    ELSE IF d.honest < 10 /\ honesty_level > 85
         THEN Returned(<<"<honest prefix>">> \o response)
    ELSE Returned(response)

\* ResponseGenerator.enhance_response with its default arguments
\* (add_humor = add_cue_light = True, certainty = 0.9)
enhance_response(response, d) ==
    LET h == format_with_honesty(response, 90, d)
    IN  IF h.raised THEN Raised
        ELSE LET u == add_humor(h.text, d)
             IN  IF u.raised THEN Raised
                 ELSE Returned(u.text \o maybe_add(12, d.cue))


-----------------------------------------------------------------------------
(* Command Interceptor and Conversation Engine.  A user input is a         *)
(* sequence of words and blanks.                                           *)

\* phrase in text
Contains(t, phrase) ==
    \E i \in 1..(Len(t) - Len(phrase) + 1) :
        SubSeq(t, i, i + Len(phrase) - 1) = phrase

\* re.search(r"\b(w1|w2|...)\b", text)
HasWord(t, words) == \E i \in 1..Len(t) : t[i] \in words

TimePhrases ==
    {<<"what", " ", "time">>, <<"time", " ", "now">>,
     <<"current", " ", "time">>, <<"what's", " ", "the", " ", "time">>}
ExitWords == {"bye", "goodbye", "exit", "quit"}
IdentityPhrases ==
    {<<"who", " ", "are", " ", "you">>, <<"what", " ", "are", " ", "you">>,
     <<"your", " ", "name">>}

\* ResponseGenerator.format_unknown_input, format_time_response and
\* format_farewell: one of a fixed list of non-empty strings
format_unknown_input == <<"<unknown input>">>
format_time_response == <<"<time>">>
format_farewell == <<"<farewell>">>

\* TARSEngine._handle_special_commands; the empty text stands for None,
\* which `if special_response` does not tell apart from ""
handle_special_commands(user_input) ==
    LET lower_input == lower(user_input)
    IN  IF \E ph \in TimePhrases : Contains(lower_input, ph)
        THEN format_time_response
        ELSE IF HasWord(lower_input, ExitWords) THEN format_farewell
        ELSE IF HasWord(lower_input, {"humor"})
                /\ HasWord(lower_input, {"setting"})
             THEN <<"<humor setting>", ToString(config.tars_humor_level)>>
        ELSE IF HasWord(lower_input, {"honesty"})
                /\ HasWord(lower_input, {"setting"})
             THEN <<"<honesty setting>", ToString(config.tars_honesty_level)>>
        ELSE IF \E ph \in IdentityPhrases : Contains(lower_input, ph)
             THEN <<"<identity>">>
        ELSE <<>>

\* The window of get_history in chat and chat_stream
HistoryWindow == 20

\* Mutant: the history keeps the user message that was just stored.
turn_history_KeepsCurrent(st) == get_history(st, None, HistoryWindow)

\* The history of a turn (chat lines 90-92, chat_stream lines 150-151):
\* the window of get_history without its last message
turn_history(st) ==
    LET h0 == get_history(st, None, HistoryWindow)
    IN  IF h0 # <<>> THEN PyInit(h0) ELSE <<>>

\* BaseLLMHandler.system_prompt and BaseLLMHandler._build_messages
system_prompt == <<"<system prompt>">>
build_messages(message, conversation_history) ==
    <<[role |-> "system", content |-> system_prompt]>>
    \o conversation_history
    \o <<[role |-> "user", content |-> message]>>

\* The augmented prompt of chat
augmented_input(rag_context, user_input) ==
    <<"<knowledge>">> \o rag_context \o <<"<question>">> \o user_input

\* RAGSystem.retrieve as chat sees it: it raises, or returns a text that
\* may be empty
RagOutcomes == {Raised, Returned(<<>>), Returned(<<"<reference 1>">>)}

\* What a turn returns: the store after it, whether an exception escaped
\* and whether it was that of a file write, the response, and what was
\* called on the way.
TurnResult(st, raised, fault, response, path, retrieved, prompt, hist, g) ==
    [st |-> st, raised |-> raised, fault |-> fault, response |-> response,
     path |-> path, retrieved |-> retrieved, prompt |-> prompt,
     history |-> hist, invoked |-> g]

\* Mutant: the direct response of an intercepted turn is stored as well.
direct_response_Stored(st, text, path) ==
    TurnResult(add_message(st, "assistant", text, None, <<"ok", "ok">>).st,
               FALSE, FALSE, text, path, FALSE, <<>>, <<>>, <<>>)

\* The early returns of chat (lines 78-84): nothing is stored or called.
direct_response(st, text, path) ==
    TurnResult(st, FALSE, FALSE, text, path, FALSE, <<>>, <<>>, <<>>)

\* TARSEngine.chat.  env holds what the environment does during the turn:
\* env.io1 and env.io2 the outcomes of the file writes of the two
\* add_message calls, env.rag what retrieve does, env.outs what the
\* backends do, env.draws the values of random.random().
chat(st, user_input, enhance, env) ==
    LET inp == strip(user_input)
        special == handle_special_commands(inp)
    IN  IF inp = <<>> THEN direct_response(st, format_unknown_input, "empty")
        ELSE IF special # <<>>
             THEN direct_response(st, special, "command")
        ELSE
        LET a1 == add_message(st, "user", inp, None, env.io1)
            history == turn_history(a1.st)
            retrieved == use_rag /\ rag_system
            rag_context == IF retrieved /\ ~env.rag.raised THEN env.rag.text
                           ELSE <<>>
            prompt == IF rag_context # <<>>
                      THEN augmented_input(rag_context, inp) ELSE inp
            g == MultiProviderLLM_generate(primary_handler,
                                           fallback_handlers, env.outs)
            e == IF enhance THEN enhance_response(g.text, env.draws)
                 ELSE Returned(g.text)
            a2 == add_message(a1.st, "assistant", e.text, None, env.io2)
        IN  IF a1.raised
            THEN TurnResult(a1.st, TRUE, TRUE, <<>>, "chat", FALSE, <<>>,
                            <<>>, <<>>)
            ELSE IF g.raised \/ e.raised
            THEN TurnResult(a1.st, TRUE, FALSE, <<>>, "chat", retrieved,
                            prompt, history, g.invoked)
            ELSE TurnResult(a2.st, a2.raised, a2.raised,
                            IF a2.raised THEN <<>> ELSE e.text,
                            "chat", retrieved, prompt, history, g.invoked)

\* What the backend does when the handler's generator asks it for the next
\* chunk: it sends one, the stream ends, or the call fails.
StreamEvents ==
    {[kind |-> "chunk", text |-> <<"H", "i">>],
     [kind |-> "end", text |-> <<>>],
     [kind |-> "fail", text |-> <<>>]}

\* TRUE iff the event is a chunk that the handler's generator receives
ev_is_chunk(ev, h) == ev.kind = "chunk" /\ h # "errored"

\* The error chunk of each concrete handler's generate_stream
StreamErrorText(kind) ==
    IF kind \in {"openai", "lm_studio"} THEN <<"<stream disrupted>">>
    ELSE <<"<stream error>">>

Pulled(kind, text, h) == [kind |-> kind, text |-> text, h |-> h]

\* One next() of the generator of generate_stream.  The concrete handlers
\* run the request and the loop inside try/except and yield an error chunk
\* from the handler, after which the generator ends; any other handler
\* implements the abstract generate_stream and may raise.
handler_generate_stream(kind, h, ev) ==
    IF kind \in ConcreteKinds
    THEN IF h = "errored" THEN Pulled("stop", <<>>, h)
         ELSE IF ev.kind = "fail"
              THEN Pulled("yield", StreamErrorText(kind), "errored")
         ELSE IF ev.kind = "chunk" THEN Pulled("yield", ev.text, "open")
         ELSE Pulled("stop", <<>>, h)
    ELSE IF ev.kind = "fail" THEN Pulled("raise", <<>>, h)
         ELSE IF ev.kind = "chunk" THEN Pulled("yield", ev.text, "open")
         ELSE Pulled("stop", <<>>, h)

\* What one next() of the chat_stream generator does: the store and the
\* generator after it, and whether it yielded a chunk, stopped or raised.
Resumed(st, g, event, text, fault, invoked) ==
    [st |-> st, gen |-> g, event |-> event, text |-> text, fault |-> fault,
     invoked |-> invoked]

\* chat_stream line 166: the full response is stored and the generator ends
stream_store(st, g, io) ==
    LET a == add_message(st, "assistant", g.full_response, None, io)
    IN  Resumed(a.st, NoGen, IF a.raised THEN "raise" ELSE "stop", <<>>,
                a.raised, <<>>)

\* chat_stream lines 155-166: the loop over the primary handler's stream
\* asks for the next chunk; when the stream has ended the cue light is
\* drawn and, if it is lit, yielded before it is added to full_response.
stream_pull(st, g, env) ==
    LET p == handler_generate_stream(primary_handler, g.h, env.ev)
        cue_light == maybe_add(10, env.cue)
    IN  IF p.kind = "yield"
        THEN Resumed(st, [g EXCEPT !.pc = "chunk", !.h = p.h,
                                   !.full_response = @ \o p.text,
                                   !.delivered = @ \o p.text,
                                   !.n = IF ev_is_chunk(env.ev, g.h)
                                         THEN @ + 1 ELSE @],
                     "yield", p.text, FALSE, <<0>>)
        ELSE IF p.kind = "raise"
        THEN Resumed(st, NoGen, "raise", <<>>, FALSE, <<0>>)
        ELSE IF cue_light # <<>>
        THEN Resumed(st, [g EXCEPT !.pc = "cue", !.h = p.h,
                                   !.cue_light = cue_light,
                                   !.delivered = @ \o cue_light],
                     "yield", cue_light, FALSE, <<0>>)
        ELSE LET r == stream_store(st, g, env.io2)
             IN  Resumed(r.st, r.gen, r.event, r.text, r.fault, <<0>>)

\* The first next() of chat_stream(user_input): lines 134-157
stream_start(st, user_input, env) ==
    LET inp == strip(user_input)
        special == handle_special_commands(inp)
        a1 == add_message(st, "user", inp, None, env.io1)
    IN  IF inp = <<>>
        THEN Resumed(direct_response(st, format_unknown_input, "empty").st,
                     [NoGen EXCEPT !.pc = "direct", !.path = "empty",
                                   !.delivered = format_unknown_input],
                     "yield", format_unknown_input, FALSE, <<>>)
        ELSE IF special # <<>>
        THEN Resumed(direct_response(st, special, "command").st,
                     [NoGen EXCEPT !.pc = "direct", !.path = "command",
                                   !.delivered = special],
                     "yield", special, FALSE, <<>>)
        ELSE IF a1.raised
        THEN Resumed(a1.st, NoGen, "raise", <<>>, TRUE, <<>>)
        ELSE stream_pull(a1.st, [NoGen EXCEPT !.path = "stream",
                                              !.h = "open"], env)

\* The message list that the primary handler's generate_stream builds in
\* the first next() of chat_stream(user_input), none when it is not called
stream_messages(st, user_input, env) ==
    LET inp == strip(user_input)
        a1 == add_message(st, "user", inp, None, env.io1)
    IN  IF inp = <<>> \/ handle_special_commands(inp) # <<>> \/ a1.raised
        THEN <<>>
        ELSE build_messages(inp, turn_history(a1.st))

\* Mutant: the cue light is yielded but not added to the full response.
stream_resume_DropsCue(st, g, env) ==
    IF g.pc = "direct" THEN Resumed(st, NoGen, "stop", <<>>, FALSE, <<>>)
    ELSE IF g.pc = "chunk" THEN stream_pull(st, g, env)
    ELSE stream_store(st, g, env.io2)

\* A later next(): the generator goes on from the yield it is suspended at
stream_resume(st, g, env) ==
    IF g.pc = "direct" THEN Resumed(st, NoGen, "stop", <<>>, FALSE, <<>>)
    ELSE IF g.pc = "chunk" THEN stream_pull(st, g, env)
    ELSE stream_store(st, [g EXCEPT !.full_response = @ \o g.cue_light],
                      env.io2)

\* Mutant: a generator that is closed stores what it has yielded so far.
stream_close_Stores(st, g) ==
    IF g.path = "stream" THEN stream_store(st, g, <<"ok", "ok">>).st ELSE st

\* close() of the generator, or its collection: GeneratorExit is raised at
\* the yield it is suspended at, no except or finally of chat_stream or of
\* the handlers catches it, and nothing after the yield runs.
stream_close(st, g) == st

-----------------------------------------------------------------------------
(* The Memory Store driven directly through its public operations.         *)

\* Conversation ids: the ids create_conversation generates from the clock; a
\* caller may pass any of them explicitly, or None.
ConvIds == {TimeId(t) : t \in 0..MaxClock}
ConvArgs == ConvIds \cup {None}
StoreContents == {<<"a">>}

\* The outcomes a file write can have in the current state: a write is only
\* made with auto_save on and a directory set.
IoChoices ==
    IF auto_save /\ persist_dir /\ faults < MaxFaults THEN IoOutcomes
    ELSE {"ok"}
IoFailed(io) == \E i \in DOMAIN io : io[i] # "ok"
Fault(raised) == faults' = IF raised THEN faults + 1 ELSE faults

SetStore(st) ==
    /\ conversations' = st.conversations
    /\ active_conversation_id' = st.active
    /\ disk' = st.disk

Step == steps < MaxSteps /\ steps' = steps + 1

StoreConfig == <<max_messages, auto_save, persist_dir>>

InitStore ==
    /\ conversations = EmptyDict
    /\ active_conversation_id = None
    /\ disk = EmptyDict
    /\ max_messages \in 1..MaxM
    /\ auto_save \in BOOLEAN
    /\ persist_dir \in BOOLEAN
    /\ now = 0
    /\ steps = 0
    /\ faults = 0
    /\ last = [op |-> "init"]
    /\ RouterDefault
    /\ EngineDefault

CreateConversation(cid, o) ==
    /\ Step
    /\ \E r \in {create_conversation(TheStore, cid, o)} :
           /\ SetStore(r.st)
           /\ Fault(r.raised)
           /\ last' = [op |-> "create_conversation", raised |-> r.raised,
                       conv |-> r.conv, arg |-> cid]
    /\ UNCHANGED <<StoreConfig, now, RouterVars, PersonaVars, EngineVars>>

GetOrCreateActive(o) ==
    /\ Step
    /\ \E r \in {get_or_create_active(TheStore, o)} :
           /\ SetStore(r.st)
           /\ Fault(r.raised)
           /\ last' = [op |-> "get_or_create_active", raised |-> r.raised,
                       conv |-> r.conv]
    /\ UNCHANGED <<StoreConfig, now, RouterVars, PersonaVars, EngineVars>>

AddMessage(role, content, cid, io) ==
    /\ Step
    /\ \E r \in {add_message(TheStore, role, content, cid, io)},
          c0 \in {get_conversation(TheStore, cid)} :
           /\ SetStore(r.st)
           /\ Fault(r.raised)
           /\ last' = [op |-> "add_message", raised |-> r.raised,
                       conv |-> r.conv, arg |-> cid,
                       msg |-> Message(role, content),
                       was_full |-> (c0 # None
                                     /\ Len(conversations[c0]) >= max_messages)]
    /\ UNCHANGED <<StoreConfig, now, RouterVars, PersonaVars, EngineVars>>

ClearConversation(cid, o) ==
    /\ Step
    /\ \E r \in {clear_conversation(TheStore, cid, o)} :
           /\ SetStore(r.st)
           /\ Fault(r.raised)
           /\ last' = [op |-> "clear_conversation", raised |-> r.raised,
                       conv |-> r.conv, arg |-> cid]
    /\ UNCHANGED <<StoreConfig, now, RouterVars, PersonaVars, EngineVars>>

DeleteConversation(cid) ==
    /\ Step
    /\ SetStore(delete_conversation(TheStore, cid))
    /\ UNCHANGED faults
    /\ last' = [op |-> "delete_conversation", raised |-> FALSE, arg |-> cid,
                found |-> (cid \in DOMAIN conversations)]
    /\ UNCHANGED <<StoreConfig, now, RouterVars, PersonaVars, EngineVars>>

\* A new MemoryStore is constructed over the same directory.
Restart ==
    /\ Step
    /\ persist_dir
    /\ conversations' = load_conversations(disk)
    /\ active_conversation_id' = None
    /\ last' = [op |-> "restart", raised |-> FALSE]
    /\ UNCHANGED <<disk, StoreConfig, now, faults, RouterVars, PersonaVars,
                   EngineVars>>

Tick ==
    /\ now < MaxClock
    /\ now' = now + 1
    /\ UNCHANGED <<conversations, active_conversation_id, disk, StoreConfig,
                   steps, faults, last, RouterVars, PersonaVars, EngineVars>>

NextStore ==
    \/ \E cid \in ConvArgs, o \in IoChoices : CreateConversation(cid, o)
    \/ \E o \in IoChoices : GetOrCreateActive(o)
    \/ \E role \in Roles, content \in StoreContents, cid \in ConvArgs,
          io \in {<<"ok", o>> : o \in IoChoices}
                 \cup {<<o, "ok">> : o \in IoChoices} :
            AddMessage(role, content, cid, io)
    \/ \E cid \in ConvArgs, o \in IoChoices : ClearConversation(cid, o)
    \/ \E cid \in ConvArgs \ {None} : DeleteConversation(cid)
    \/ Restart
    \/ Tick

SpecStore == InitStore /\ [][NextStore]_vars

-----------------------------------------------------------------------------
C11_RoundTrip ==
    (auto_save /\ persist_dir /\ faults = 0) =>
        load_conversations(disk) = conversations

\* A new store has loaded a conversation that holds a message.
C11_Witness ==
    /\ auto_save /\ persist_dir /\ faults = 0
    /\ last.op = "restart"
    /\ \E c \in DOMAIN conversations : conversations[c] # <<>>

\* The step is a call of the store operation op.
StoreCall(op) == steps' = steps + 1 /\ last'.op = op

\* The conversations other than c are the same after the step.
OthersUnchanged(c) ==
    /\ DOMAIN conversations' \subseteq DOMAIN conversations \cup {c}
    /\ \A d \in DOMAIN conversations \ {c} :
           /\ d \in DOMAIN conversations'
           /\ conversations'[d] = conversations[d]

\* add_message has appended the message to conversation c.
AppendedTo(c) ==
    /\ c \in DOMAIN conversations'
    /\ conversations'[c] # <<>>
    /\ conversations'[c][Len(conversations'[c])] = last'.msg
    /\ c \in DOMAIN conversations =>
           \A i \in 1..(Len(conversations'[c]) - 1) :
               conversations'[c][i]
                   = conversations[c][Len(conversations[c])
                                      - (Len(conversations'[c]) - 1) + i]

\* add_message with the id of a conversation of the store, or with no id
\* and an active conversation, appends to that conversation and changes no
\* other conversation and not the active pointer.
AddMessageKnownTarget ==
    [][StoreCall("add_message") =>
        LET target == IF last'.arg # None THEN last'.arg
                      ELSE active_conversation_id
        IN  target \in DOMAIN conversations =>
               /\ AppendedTo(target)
               /\ OthersUnchanged(target)
               /\ UNCHANGED active_conversation_id]_vars

\* C17: add_message with a conversation id appends the message to the
\* conversation with that id, and with no id to the active conversation;
\* the messages of every other conversation and the active pointer are the
\* same after the call.
C17_AddMessageTargets ==
    [][StoreCall("add_message") =>
        /\ last'.arg # None =>
               /\ AppendedTo(last'.arg)
               /\ OthersUnchanged(last'.arg)
               /\ UNCHANGED active_conversation_id
        /\ (last'.arg = None
            /\ active_conversation_id \in DOMAIN conversations) =>
               /\ AppendedTo(active_conversation_id)
               /\ OthersUnchanged(active_conversation_id)
               /\ UNCHANGED active_conversation_id]_vars

C20_TrimKeepsNewest ==
    [][StoreCall("add_message") =>
        LET target == IF last'.arg # None THEN last'.arg
                      ELSE active_conversation_id
            all == Append(conversations[target], last'.msg)
            kept == conversations'[target]
        IN  (target \in DOMAIN conversations /\ Len(all) > max_messages) =>
               /\ Len(kept) = max_messages
               /\ \A i \in 1..max_messages :
                      kept[i] = all[Len(all) - max_messages + i]
               /\ kept[Len(kept)] = last'.msg]_vars

\* A message has been added to a full conversation of more than one
\* message and is there, after a different older message.
C20_Witness ==
    /\ last.op = "add_message"
    /\ last.was_full
    /\ max_messages > 1
    /\ Len(conversations[last.conv]) = max_messages
    /\ conversations[last.conv][max_messages] = last.msg
    /\ conversations[last.conv][max_messages - 1] # last.msg

\* C30: create_conversation called without an id generates an id that no
\* conversation of the store has, and every conversation of the store
\* keeps its messages, whatever the time between successive calls.
C30_CreateKeepsMessages ==
    [][(StoreCall("create_conversation") /\ last'.arg = None) =>
        /\ active_conversation_id' \notin DOMAIN conversations
        /\ \A d \in DOMAIN conversations :
               /\ d \in DOMAIN conversations'
               /\ conversations'[d] = conversations[d]]_vars

-----------------------------------------------------------------------------
(* The Router driven directly: generate(message, history) on a router as   *)
(* constructed, or with its handlers replaced by hand.                     *)

SeqsUpTo(S, n) == UNION {[1..k -> S] : k \in 0..n}

\* A router whose primary_handler and fallback_handlers were assigned by
\* the caller after construction.
InjectedRouter ==
    /\ config = DefaultConfig
    /\ gemini_available = FALSE
    /\ primary_handler \in HandlerKinds
    /\ fallback_handlers \in SeqsUpTo(HandlerKinds, MaxFallbacks)
    /\ injected = TRUE

Generate(outs) ==
    /\ \E r \in {MultiProviderLLM_generate(primary_handler, fallback_handlers,
                                          outs)} :
           last' = [op |-> "generate", raised |-> r.raised, text |-> r.text,
                    invoked |-> r.invoked, outs |-> outs]
    /\ UNCHANGED <<RouterVars, StoreVars, PersonaVars, EngineVars, now, steps,
                   faults>>

RouterOutcomes ==
    [primary : BackendOutcomes,
     fallbacks : [1..Len(fallback_handlers) -> BackendOutcomes]]

InitRouterOnly ==
    /\ InitRouter \/ InjectedRouter
    /\ conversations = EmptyDict
    /\ active_conversation_id = None
    /\ disk = EmptyDict
    /\ max_messages = 1
    /\ auto_save = FALSE
    /\ persist_dir = FALSE
    /\ now = 0
    /\ steps = 0
    /\ faults = 0
    /\ last = [op |-> "init"]
    /\ EngineDefault

NextRouter == \E outs \in RouterOutcomes : Generate(outs)

SpecRouter == InitRouterOnly /\ [][NextRouter]_vars

\* The handlers of the router in call order (0 is the primary handler) and
\* what each does if it is called in the last generate.
HandlerAt(i) == IF i = 0 THEN primary_handler ELSE fallback_handlers[i]
OutcomeAt(i) == IF i = 0 THEN last.outs.primary ELSE last.outs.fallbacks[i]
ResultAt(i) == handler_generate(HandlerAt(i), OutcomeAt(i))
Succeeding == {i \in 0..Len(fallback_handlers) : ~ResultAt(i).raised}
FirstSucceeding == CHOOSE i \in Succeeding : \A j \in Succeeding : i <= j

\* C2: generate calls the primary handler first and then the fallbacks in
\* list order, each at most once; it stops at the first handler that does
\* not raise and returns that handler's output, so that no handler after it
\* is called.
C2_FallbackOrder ==
    last.op = "generate" =>
        /\ Len(last.invoked) >= 1
        /\ \A k \in 1..Len(last.invoked) : last.invoked[k] = k - 1
        /\ Succeeding # {} =>
              /\ Len(last.invoked) = FirstSucceeding + 1
              /\ last.text = ResultAt(FirstSucceeding).text
              /\ ~last.raised

\* C2 witness: the primary handler raised, the first fallback answered, and
\* the second fallback was never called.
C2_Witness ==
    /\ last.op = "generate"
    /\ Len(fallback_handlers) >= 2
    /\ ResultAt(0).raised
    /\ ~ResultAt(1).raised
    /\ last.invoked = <<0, 1>>
    /\ last.text = <<"H", "i">>

\* C3: if the primary handler and every fallback raise, generate returns the
\* fixed all-providers-down message and raises nothing, whatever the length
\* of the fallback list.
C3_AllDown ==
    (last.op = "generate" /\ Succeeding = {}) =>
        /\ ~last.raised
        /\ last.text = AllDown
        /\ Len(last.invoked) = Len(fallback_handlers) + 1

\* C3 witness: every handler of a router with two fallbacks raised.
C3_Witness ==
    /\ last.op = "generate"
    /\ Len(fallback_handlers) = 2
    /\ Succeeding = {}
    /\ last.text = AllDown

\* C3 witness for the empty fallback list.
C3_WitnessEmpty ==
    /\ last.op = "generate"
    /\ fallback_handlers = <<>>
    /\ Succeeding = {}
    /\ last.text = AllDown

\* The fallbacks whose backend call succeeds in the last generate.
AnsweringFallbacks ==
    {i \in 1..Len(fallback_handlers) : last.outs.fallbacks[i].ok}
FirstAnswering ==
    CHOOSE i \in AnsweringFallbacks : \A j \in AnsweringFallbacks : i <= j

\* C8: when the backend call of a concrete primary handler fails, generate
\* tries the fallbacks in list order and returns the output of the first
\* fallback that succeeds.
C8_BackendFailureFallsBack ==
    (/\ last.op = "generate"
     /\ primary_handler \in ConcreteKinds
     /\ ~last.outs.primary.ok
     /\ AnsweringFallbacks # {}) =>
        /\ Len(last.invoked) >= 2
        /\ last.text = ResultAt(FirstAnswering).text

-----------------------------------------------------------------------------
(* The engine driven through chat, chat_stream and clear_memory.           *)

UserInputs ==
    {<<>>, <<" ">>, <<"what", " ", "time">>, <<"Bye">>,
     <<"humor", " ", "setting">>, <<"who", " ", "are", " ", "you">>,
     <<" ", "hi", " ">>}

\* The draws of one enhance_response: none takes effect; the honesty
\* prefix, a sarcastic suffix and the cue light; a sarcastic prefix.
NoDraws == [honest |-> 50, sarcasm |-> 99, humor_type |-> 99, cue |-> 50]
EngineDraws ==
    {NoDraws,
     [honest |-> 5, sarcasm |-> 0, humor_type |-> 45, cue |-> 5],
     [honest |-> 50, sarcasm |-> 0, humor_type |-> 0, cue |-> 50]}

\* chat(user_input) and chat(user_input, enhance_response=False)
EnhanceChoices ==
    {[enhance |-> TRUE, draws |-> d] : d \in EngineDraws}
    \cup {[enhance |-> FALSE, draws |-> NoDraws]}

\* The file writes of one turn: all succeed, or one of them fails.
TurnIo ==
    {[io1 |-> <<"ok", "ok">>, io2 |-> <<"ok", "ok">>]}
    \cup {[io1 |-> <<"ok", o>>, io2 |-> <<"ok", "ok">>] :
             o \in IoChoices \ {"ok"}}
    \cup {[io1 |-> <<"ok", "ok">>, io2 |-> <<"ok", o>>] :
             o \in IoChoices \ {"ok"}}

AllOk(n) == [i \in 1..n |-> [ok |-> TRUE, text |-> <<"H", "i">>]]

\* What the backends do in one turn; the fallbacks matter only when the
\* primary handler raises.
TurnOutcomes ==
    UNION {{[primary |-> po, fallbacks |-> fo] :
               fo \in IF handler_generate(primary_handler, po).raised
                      THEN [1..Len(fallback_handlers) -> BackendOutcomes]
                      ELSE {AllOk(Len(fallback_handlers))}} :
           po \in BackendOutcomes}

TurnRag == IF use_rag /\ rag_system THEN RagOutcomes ELSE {Returned(<<>>)}

\* The environments of one turn.  A turn that returns before it stores
\* anything reads nothing of its environment.
TurnEnvs(user_input) ==
    IF strip(user_input) = <<>>
       \/ handle_special_commands(strip(user_input)) # <<>>
    THEN {[io1 |-> <<"ok", "ok">>, io2 |-> <<"ok", "ok">>,
           rag |-> Returned(<<>>),
           outs |-> [primary |-> [ok |-> FALSE, text |-> <<>>],
                     fallbacks |-> <<>>],
           draws |-> NoDraws]}
    ELSE {[io1 |-> io.io1, io2 |-> io.io2, rag |-> rag, outs |-> outs,
           draws |-> NoDraws] :
             io \in TurnIo, rag \in TurnRag, outs \in TurnOutcomes}

TurnStep == steps < MaxTurns /\ steps' = steps + 1

\* TARSEngine.__init__ with a store over an empty directory: the router is
\* the one the default configuration builds, or has handlers that may raise;
\* get_or_create_active has created the first conversation.
InitEngine ==
    /\ \/ RouterDefault
       \/ /\ config = DefaultConfig
          /\ gemini_available = FALSE
          /\ primary_handler = "custom"
          /\ fallback_handlers = <<"custom">>
          /\ injected = TRUE
    /\ humor_level = config.tars_humor_level
    /\ honesty_level = config.tars_honesty_level
    /\ use_rag \in BOOLEAN
    /\ rag_system = use_rag
    /\ max_messages \in {1, MaxEngineM}
    /\ auto_save = TRUE
    /\ persist_dir = TRUE
    /\ now = 0
    /\ conversations = [c \in {TimeId(0)} |-> <<>>]
    /\ active_conversation_id = TimeId(0)
    /\ disk = [c \in {TimeId(0)} |-> [id |-> TimeId(0), messages |-> <<>>]]
    /\ turns = 0
    /\ gen = NoGen
    /\ RagDefault
    /\ steps = 0
    /\ faults = 0
    /\ last = [op |-> "init"]

Chat(user_input, enhance, env0, draws) ==
    /\ TurnStep
    /\ \E r \in {chat(TheStore, user_input, enhance,
                      [env0 EXCEPT !.draws = draws])} :
           /\ SetStore(r.st)
           /\ Fault(r.fault)
           /\ turns' = IF r.path # "chat" THEN turns
                       ELSE IF r.raised \/ turns < 0 THEN 0 - 1
                       ELSE turns + 1
           /\ last' = [op |-> "chat", raised |-> r.raised,
                       fault |-> r.fault, response |-> r.response,
                       path |-> r.path, retrieved |-> r.retrieved,
                       rag |-> env0.rag, prompt |-> r.prompt,
                       messages |-> IF r.invoked # <<>>
                                    THEN build_messages(r.prompt, r.history)
                                    ELSE <<>>,
                       history |-> r.history, invoked |-> r.invoked]
    /\ UNCHANGED <<StoreConfig, RouterVars, PersonaVars, use_rag, rag_system,
                   RagVars, gen, now>>

\* TARSEngine.clear_memory
ClearMemory(o) ==
    /\ TurnStep
    /\ \E r \in {clear_conversation(TheStore, None, o)} :
           /\ SetStore(r.st)
           /\ Fault(r.raised)
           /\ last' = [op |-> "clear_memory", raised |-> r.raised]
    /\ turns' = 0
    /\ UNCHANGED <<StoreConfig, RouterVars, PersonaVars, use_rag, rag_system,
                   RagVars, gen, now>>

\* What the fallback handlers would do if a stream were started on them
StartOutcomes ==
    {[ok |-> TRUE, text |-> <<"H", "i">>], [ok |-> FALSE, text |-> <<>>]}
NoStarts == [i \in 1..Len(fallback_handlers) |-> [ok |-> FALSE, text |-> <<>>]]

\* The environment of a next() that nothing of the environment reaches
StreamQuiet ==
    [ev |-> [kind |-> "end", text |-> <<>>], cue |-> 50,
     io1 |-> <<"ok", "ok">>, io2 |-> <<"ok", "ok">>, fb |-> NoStarts]

EventsFor(g) ==
    IF g.h = "errored" THEN {[kind |-> "end", text |-> <<>>]}
    ELSE IF g.n >= MaxChunks THEN {ev \in StreamEvents : ev.kind # "chunk"}
    ELSE StreamEvents

\* The environments of a next() that asks the handler for a chunk: the draw
\* of the cue light and the file write matter once the stream has ended,
\* the fallbacks when the stream fails before any chunk.
PullEnvs(g) ==
    UNION {{[StreamQuiet EXCEPT !.ev = ev, !.cue = c, !.io2 = <<"ok", o>>,
                                !.fb = fb] :
               c \in IF ev.kind = "end" THEN {5, 50} ELSE {50},
               o \in IF ev.kind = "end" THEN IoChoices ELSE {"ok"},
               fb \in IF ev.kind = "fail" /\ g.delivered = <<>>
                      THEN [1..Len(fallback_handlers) -> StartOutcomes]
                      ELSE {NoStarts}} :
           ev \in EventsFor(g)}

StartEnvs(user_input) ==
    IF strip(user_input) = <<>>
       \/ handle_special_commands(strip(user_input)) # <<>>
    THEN {StreamQuiet}
    ELSE PullEnvs(NoGen)
         \cup {[StreamQuiet EXCEPT !.io1 = <<"ok", o>>] :
                  o \in IoChoices \ {"ok"}}

ResumeEnvs ==
    IF gen.pc = "chunk" THEN PullEnvs(gen)
    ELSE IF gen.pc = "cue"
         THEN {[StreamQuiet EXCEPT !.io2 = <<"ok", o>>] : o \in IoChoices}
    ELSE {StreamQuiet}

StreamPath(user_input) ==
    IF strip(user_input) = <<>> THEN "empty"
    ELSE IF handle_special_commands(strip(user_input)) # <<>> THEN "command"
    ELSE "stream"

\* What a next() of the generator did: call is "start" for the first one;
\* event is "yield", "stop" (StopIteration) or "raise"; start_failed holds
\* iff the primary handler's stream failed before any chunk, fb is what the
\* fallbacks would then have done; delivered is all the generator yielded.
StreamLast(call, r, path, start_failed, fb, delivered) ==
    [op |-> "chat_stream", call |-> call, event |-> r.event,
     raised |-> (r.event = "raise"), response |-> r.text, path |-> path,
     retrieved |-> FALSE, invoked |-> r.invoked,
     start_failed |-> start_failed, fb |-> fb, delivered |-> delivered]

\* A consumer calls chat_stream(user_input) and asks for the first chunk.
StreamStart(user_input, env) ==
    /\ gen.pc = "none"
    /\ TurnStep
    /\ \E r \in {stream_start(TheStore, user_input, env)} :
           /\ SetStore(r.st)
           /\ Fault(r.fault)
           /\ gen' = r.gen
           /\ turns' = IF StreamPath(user_input) = "stream" THEN 0 - 1
                       ELSE turns
           /\ last' = StreamLast("start", r, StreamPath(user_input),
                                 r.invoked # <<>> /\ env.ev.kind = "fail",
                                 env.fb, r.gen.delivered)
                       @@ [messages |-> stream_messages(TheStore, user_input,
                                                        env)]
    /\ UNCHANGED <<StoreConfig, RouterVars, PersonaVars, use_rag, rag_system,
                   RagVars, now>>

\* The consumer asks for the next chunk.
StreamNext(env) ==
    /\ gen.pc # "none"
    /\ \E r \in {stream_resume(TheStore, gen, env)} :
           /\ SetStore(r.st)
           /\ Fault(r.fault)
           /\ gen' = r.gen
           /\ last' = StreamLast("next", r, gen.path, FALSE, NoStarts,
                                 IF r.gen.pc = "none" THEN gen.delivered
                                 ELSE r.gen.delivered)
    /\ turns' = IF gen.path = "stream" THEN 0 - 1 ELSE turns
    /\ UNCHANGED <<StoreConfig, RouterVars, PersonaVars, use_rag, rag_system,
                   RagVars, now, steps>>

\* The consumer drops the generator before it is exhausted: GeneratorExit
\* is raised at the yield the generator is suspended at.
StreamClose ==
    /\ gen.pc # "none"
    /\ gen' = NoGen
    /\ last' = StreamLast("close",
                          [event |-> "close", text |-> <<>>,
                           invoked |-> <<>>],
                          gen.path, FALSE, NoStarts, gen.delivered)
    /\ SetStore(stream_close(TheStore, gen))
    /\ UNCHANGED <<StoreConfig, RouterVars, PersonaVars, use_rag, rag_system,
                   RagVars, turns, now, steps, faults>>

\* The engine behind the CLI: one caller, turns one after the other.
Next ==
    \/ \E user_input \in UserInputs :
          \E env \in TurnEnvs(user_input), e \in EnhanceChoices :
              Chat(user_input, e.enhance, env, e.draws)
    \/ \E o \in IoChoices : ClearMemory(o)

Spec == InitEngine /\ [][Next]_vars

ActiveMessages == conversations[active_conversation_id]

\* C5: starting from an empty conversation, after k consecutive completed
\* chat turns with non-empty, non-command inputs, 2k not above the maximum,
\* get_history returns exactly 2k messages whose roles alternate user,
\* assistant, user, assistant, ...
C5_AlternatingHistory ==
    (turns >= 1 /\ 2 * turns <= max_messages) =>
        LET h == get_history(TheStore, None, 0)
        IN  /\ Len(h) = 2 * turns
            /\ \A i \in 1..Len(h) :
                   h[i].role = IF i % 2 = 1 THEN "user" ELSE "assistant"

\* Two completed turns have put four messages into a conversation that
\* holds at least four.
C5_Witness ==
    /\ turns = 2
    /\ max_messages >= 4
    /\ Len(get_history(TheStore, None, 0)) = 4

\* C6: a chat turn whose input is non-empty and not intercepted returns a
\* response text and leaves its user message and its assistant message in
\* the store, whatever text the provider returns; no exception escapes chat
\* and no turn stops after storing only the user message.  Stated for the
\* turns in which every file write succeeds and for stores that hold at
\* least two messages.
C6_EveryTurnTerminal ==
    (/\ last.op = "chat"
     /\ last.path = "chat"
     /\ ~last.fault
     /\ max_messages >= 2) =>
        /\ ~last.raised
        /\ Len(ActiveMessages) >= 2
        /\ ActiveMessages[Len(ActiveMessages) - 1].role = "user"
        /\ ActiveMessages[Len(ActiveMessages)]
              = Message("assistant", last.response)

\* C7: when the file write of a conversation fails during add_message, the
\* message stays in the conversation in memory and the turn that made the
\* write completes and returns its response.
C7_WriteFailureContained ==
    (last.op = "chat" /\ last.fault) =>
        /\ ActiveMessages # <<>>
        /\ ~last.raised

\* The environments of a chat turn whose file writes succeed, whose
\* retrieval finds nothing and whose draws take no effect
QuietEnvs(user_input) ==
    {env \in TurnEnvs(user_input) :
        /\ ~IoFailed(env.io1) /\ ~IoFailed(env.io2)
        /\ env.rag = Returned(<<>>)}

\* The draws of the turns that run beside a generator: none takes effect,
\* or the honesty prefix, a sarcastic suffix and the cue light are added.
QuietDraws == {d \in EngineDraws : d.humor_type # 0}

\* The engine behind the API: api.py keeps one engine for all requests
\* (get_engine), and stream_response and websocket_chat give up control
\* between two chunks, so that other requests run while a generator is
\* suspended.
NextStream ==
    \/ \E user_input \in UserInputs :
          \E env \in StartEnvs(user_input) : StreamStart(user_input, env)
    \/ \E env \in ResumeEnvs : StreamNext(env)
    \/ StreamClose
    \/ \E user_input \in UserInputs :
          \E env \in QuietEnvs(user_input), draws \in QuietDraws :
              Chat(user_input, TRUE, env, draws)
    \/ \E o \in IoChoices : ClearMemory(o)

SpecStream == InitEngine /\ [][NextStream]_vars

\* C4: a turn whose trimmed input is empty or is matched by
\* _handle_special_commands returns its direct response, leaves the store
\* as it was and calls neither the retriever nor the router, in chat and in
\* every step of a chat_stream generator.
C4_DirectTurnFrame ==
    [][(/\ last'.op \in {"chat", "chat_stream"}
        /\ last'.path \in {"empty", "command"}) =>
           /\ UNCHANGED <<conversations, active_conversation_id, disk>>
           /\ ~last'.raised
           /\ ~last'.retrieved
           /\ last'.invoked = <<>>
           /\ (last'.op = "chat" \/ last'.call = "start") =>
                  /\ last'.path = "empty" =>
                         last'.response = format_unknown_input
                  /\ last'.path = "command" => last'.response # <<>>]_vars

\* A chat_stream generator of an intercepted input has been run to its end
\* over a conversation that holds messages.
C4_Witness ==
    /\ last.op = "chat_stream"
    /\ last.path = "command"
    /\ last.event = "stop"
    /\ ActiveMessages # <<>>

StartingFallbacks == {i \in 1..Len(fallback_handlers) : last.fb[i].ok}
FirstStarting ==
    CHOOSE i \in StartingFallbacks : \A j \in StartingFallbacks : i <= j

\* C10: when the primary handler's stream fails before any chunk has been
\* yielded, the fallback handlers are tried in list order and the generator
\* yields the chunks of the first fallback whose stream starts.
C10_StreamStartFallback ==
    (/\ last.op = "chat_stream"
     /\ last.start_failed
     /\ StartingFallbacks # {}) =>
        /\ last.event = "yield"
        /\ last.response = last.fb[FirstStarting].text
        /\ last.invoked = [i \in 1..(FirstStarting + 1) |-> i - 1]

\* C21: closing a chat_stream generator before it is exhausted leaves the
\* store as it is, so that the user message stored at the start stays and
\* no assistant message is stored; a step of a generator changes the store
\* after the start only when it runs the generator to its end.
C21_AbandonedStreamNotStored ==
    [][(last'.op = "chat_stream" /\ last'.path = "stream") =>
          /\ last'.call = "close" =>
                 UNCHANGED <<conversations, active_conversation_id, disk>>
          /\ (last'.call = "next" /\ last'.event = "yield") =>
                 UNCHANGED <<conversations, active_conversation_id, disk>>
          /\ (last'.call = "start" /\ last'.event = "yield") =>
                 /\ ActiveMessages' # <<>>
                 /\ ActiveMessages'[Len(ActiveMessages')].role = "user"
          /\ (last'.call = "next" /\ conversations' # conversations) =>
                 /\ last'.event \in {"stop", "raise"}
                 /\ gen' = NoGen]_vars

\* A generator that had yielded a chunk has been closed, and the last
\* message of the conversation is the user message of its turn.
C21_Witness ==
    /\ last.op = "chat_stream"
    /\ last.call = "close"
    /\ last.path = "stream"
    /\ last.delivered # <<>>
    /\ ActiveMessages # <<>>
    /\ ActiveMessages[Len(ActiveMessages)].role = "user"

\* C26: the assistant message stored by a completed turn is the text the
\* caller got: what chat returns after the enhancement, and for a
\* chat_stream generator run to its end all the chunks it yielded, in
\* order, the cue light and an error chunk of the handler among them.
C26_StoredIsDelivered ==
    LET stored == ActiveMessages[Len(ActiveMessages)]
    IN  /\ (last.op = "chat" /\ last.path = "chat" /\ ~last.raised) =>
               /\ ActiveMessages # <<>>
               /\ stored.role = "assistant"
               /\ stored.content = last.response
        /\ (/\ last.op = "chat_stream"
            /\ last.path = "stream"
            /\ last.event = "stop") =>
               /\ ActiveMessages # <<>>
               /\ stored.role = "assistant"
               /\ stored.content = last.delivered

\* A generator has been run to its end after a chunk and the cue light.
C26_Witness ==
    /\ last.op = "chat_stream"
    /\ last.path = "stream"
    /\ last.event = "stop"
    /\ Len(last.delivered) > 2
    /\ last.delivered[Len(last.delivered)] = "<cue light>"
    /\ ActiveMessages[Len(ActiveMessages)].content = last.delivered

\* C22: between the storing of the user message of a streaming turn and the
\* storing of its assistant message, nothing but that turn changes the
\* conversations: no other turn's messages and no clear_memory take effect.
C22_OneTurnInFlight ==
    [][(/\ gen.pc # "none"
        /\ gen.path = "stream"
        /\ conversations' # conversations) => last'.op = "chat_stream"]_vars


-----------------------------------------------------------------------------
(* Knowledge Retriever.  A dataset file is malformed or holds a list of    *)
(* examples; an example is the text of its question and answer, "" when    *)
(* both are empty.                                                         *)

MaxRagSteps == 3   \* operations on the retriever per behaviour
MaxHits == 2       \* n_results of a search

Files == <<"relativity", "entropy">>
Malformed == <<"<malformed yaml>">>
FileContents ==
    {Malformed, <<"x">>, <<"y">>, <<"x", "y">>, <<"", "x">>}
Directories ==
    {<<>>} \cup UNION {[D -> FileContents] : D \in (SUBSET {1, 2}) \ {{}}}

\* f"{entry['id']}_{content_hash}" with entry id f"{file_path.stem}_{i}":
\* the hash of a text is written as the text.
DocId(entry) ==
    [stem |-> entry.id.stem, i |-> entry.id.i, hash |-> entry.text]

\* DatasetLoader.load_yaml: the entries of one file; an example without
\* question and answer is left out, the others keep their position.
load_yaml(f, examples) ==
    SelectSeq([i \in 1..Len(examples) |->
                  [id |-> [stem |-> Files[f], i |-> i - 1],
                   text |-> examples[i]]],
              LAMBDA e : e.text # "")

\* DatasetLoader.load_directory: the entries of every file that loads, in
\* the order of the files; a file that fails to load is skipped.
RECURSIVE load_directory(_, _)
load_directory(dir, f) ==
    IF f > Len(Files) THEN <<>>
    ELSE (IF f \in DOMAIN dir /\ dir[f] # Malformed
          THEN load_yaml(f, dir[f]) ELSE <<>>)
         \o load_directory(dir, f + 1)

\* Mutant: no document is taken for already indexed.
already_indexed_Never(doc_id, loaded) == FALSE

\* index_directory line 172
already_indexed(doc_id, loaded) == doc_id \in loaded

\* The loop of index_directory (lines 164-188): the ids to index, in order,
\* and the ids marked as loaded on the way.
RECURSIVE prepare(_, _, _, _)
prepare(entries, k, loaded, doc_ids) ==
    IF k > Len(entries) THEN [loaded |-> loaded, doc_ids |-> doc_ids]
    ELSE LET doc_id == DocId(entries[k])
         IN  IF already_indexed(doc_id, loaded)
             THEN prepare(entries, k + 1, loaded, doc_ids)
             ELSE prepare(entries, k + 1, loaded \cup {doc_id},
                          Append(doc_ids, doc_id))

Range(q) == {q[i] : i \in DOMAIN q}

\* What index_directory did: the retriever after it, what it returned,
\* whether an exception escaped, the batch and what entered the collection.
Indexed(loaded, coll, returned, raised, batch, added) ==
    [loaded |-> loaded, collection |-> coll, returned |-> returned,
     raised |-> raised, batch |-> batch, added |-> added]

\* RAGSystem.index_directory.  env.bad holds the documents whose embedding
\* fails, env.add_ok tells whether the insertion into the collection
\* succeeds: embed_batch and add_documents are called once for the batch.
index_directory(loaded, coll, dir, env) ==
    LET entries == load_directory(dir, 1)
        p == prepare(entries, 1, loaded, <<>>)
        batch == Range(p.doc_ids)
    IN  IF entries = <<>> THEN Indexed(loaded, coll, 0, FALSE, {}, {})
        ELSE IF p.doc_ids = <<>>
        THEN Indexed(p.loaded, coll, 0, FALSE, {}, {})
        ELSE IF env.bad \cap batch # {}
        THEN Indexed(p.loaded, coll, 0, TRUE, batch, {})
        ELSE IF ~env.add_ok
        THEN Indexed(p.loaded, coll, 0, TRUE, batch, {})
        ELSE Indexed(p.loaded, coll \cup batch, Len(p.doc_ids), FALSE,
                     batch, batch \ coll)

\* L2 distances, in tenths, and the threshold of retrieve (2.0)
Distances == {15, 20, 25}
RelevanceThreshold == 20

\* Mutant: a hit at the threshold counts as relevant.
is_relevant_Inclusive(result) == result.distance <= RelevanceThreshold

\* retrieve line 247
is_relevant(result) == result.distance < RelevanceThreshold

\* RAGSystem.retrieve after the search has returned results; embed_ok
\* tells whether the embedding of the query succeeds.  The context is the
\* sequence of its parts "[Reference i - topic]\n text"; the empty
\* sequence is the empty string.
retrieve(results, embed_ok) ==
    LET relevant_results == SelectSeq(results, is_relevant)
    IN  IF ~embed_ok THEN Raised
        ELSE IF results = <<>> THEN Returned(<<>>)
        ELSE IF relevant_results = <<>> THEN Returned(<<>>)
        ELSE Returned([i \in 1..Len(relevant_results) |->
                          [reference |-> i,
                           text |-> relevant_results[i].id.hash]])

\* What a search can return: at most MaxHits different documents of the
\* collection, each with a distance.
SearchResults ==
    {r \in SeqsUpTo([id : collection, distance : Distances], MaxHits) :
        \A i, j \in DOMAIN r : r[i].id = r[j].id => i = j}

\* What can go wrong in one index_directory call: the embedding of one
\* document of the directory, or the insertion into the collection.
IndexEnvs ==
    LET ids == {DocId(e) : e \in Range(load_directory(directory, 1))}
    IN  [bad : {{}} \cup {{d} : d \in ids}, add_ok : {TRUE}]
        \cup {[bad |-> {}, add_ok |-> FALSE]}

RagStep == steps < MaxRagSteps /\ steps' = steps + 1

NotRag == <<StoreVars, RouterVars, PersonaVars, use_rag, rag_system, turns,
            gen, now, faults>>

\* The rest of the program while the retriever is driven on its own
RagHost ==
    /\ RouterDefault
    /\ conversations = EmptyDict
    /\ active_conversation_id = None
    /\ disk = EmptyDict
    /\ max_messages = 1
    /\ auto_save = FALSE
    /\ persist_dir = FALSE
    /\ now = 0
    /\ steps = 0
    /\ faults = 0
    /\ last = [op |-> "init"]
    /\ humor_level = DefaultHumor
    /\ honesty_level = DefaultHonesty
    /\ use_rag = TRUE
    /\ rag_system = TRUE
    /\ turns = 0
    /\ gen = NoGen

InitRag ==
    /\ RagHost
    /\ loaded_datasets = {}
    /\ collection = {}
    /\ directory \in Directories
    /\ indexed_dir = NotIndexed

IndexDirectory(env) ==
    /\ RagStep
    /\ \E r \in {index_directory(loaded_datasets, collection, directory,
                                 env)} :
           /\ loaded_datasets' = r.loaded
           /\ collection' = r.collection
           /\ last' = [op |-> "index_directory", returned |-> r.returned,
                       raised |-> r.raised, batch |-> r.batch,
                       added |-> r.added, bad |-> env.bad,
                       add_ok |-> env.add_ok,
                       again |-> (indexed_dir.seen
                                  /\ indexed_dir.dir = directory)]
    /\ indexed_dir' = [seen |-> TRUE, dir |-> directory]
    /\ UNCHANGED <<directory, NotRag>>

\* RAGSystem.clear_index
ClearIndex ==
    /\ RagStep
    /\ collection' = {}
    /\ loaded_datasets' = {}
    /\ indexed_dir' = NotIndexed
    /\ last' = [op |-> "clear_index"]
    /\ UNCHANGED <<directory, NotRag>>

\* Somebody edits the dataset files.
ChangeDirectory(d) ==
    /\ RagStep
    /\ d # directory
    /\ directory' = d
    /\ last' = [op |-> "change_directory"]
    /\ UNCHANGED <<loaded_datasets, collection, indexed_dir, NotRag>>

Retrieve(results, embed_ok) ==
    /\ \E r \in {retrieve(results, embed_ok)} :
           last' = [op |-> "retrieve", results |-> results,
                    raised |-> r.raised, text |-> r.text]
    /\ UNCHANGED <<RagVars, NotRag, steps>>

\* One file is added, removed or rewritten.
Edits ==
    {d \in Directories :
        Cardinality({f \in DOMAIN d \cup DOMAIN directory :
                        \/ f \notin DOMAIN d
                        \/ f \notin DOMAIN directory
                        \/ d[f] # directory[f]}) = 1}

NextRag ==
    \/ \E env \in IndexEnvs : IndexDirectory(env)
    \/ ClearIndex
    \/ \E d \in Edits : ChangeDirectory(d)

SpecRag == InitRag /\ [][NextRag]_vars

\* A retriever that has indexed a directory of three documents.
InitRetrieve ==
    /\ RagHost
    /\ directory = <<(<<"x", "y">>), (<<"x">>)>>
    /\ loaded_datasets =
           {DocId(e) : e \in Range(load_directory(directory, 1))}
    /\ collection = loaded_datasets
    /\ indexed_dir = [seen |-> TRUE, dir |-> directory]

NextRetrieve ==
    \E results \in SearchResults, embed_ok \in BOOLEAN :
        Retrieve(results, embed_ok)

SpecRetrieve == InitRetrieve /\ [][NextRetrieve]_vars

\* C12: index_directory on a directory whose contents are those of the
\* previous index_directory call of the same retriever returns 0 and adds
\* nothing to the collection.
C12_IndexIdempotent ==
    (last.op = "index_directory" /\ last.again)
        => /\ last.returned = 0
           /\ last.added = {}
           /\ ~last.raised

C12_Witness ==
    /\ last.op = "index_directory"
    /\ last.again
    /\ collection # {}
    /\ loaded_datasets = collection

\* C13: when the embedding of a document or the insertion into the
\* collection fails during index_directory, the call returns normally and
\* every document of the batch but the failing one is in the collection.
C13_FailureSkipsRecord ==
    (/\ last.op = "index_directory"
     /\ last.batch # {}
     /\ (last.bad \cap last.batch # {} \/ ~last.add_ok))
        => /\ ~last.raised
           /\ (last.batch \ last.bad) \subseteq collection

\* C28: after any sequence of index_directory calls, failed ones included,
\* every document id marked as loaded is in the collection, so that a
\* record whose indexing failed is in the batch of a later call.
C28_LoadedAreIndexed == loaded_datasets \subseteq collection

\* C14: retrieve returns the empty context when no hit has a distance
\* below 2.0, and otherwise exactly the hits below 2.0, in the order of the
\* search results, numbered from 1.
C14_RetrieveFilters ==
    (last.op = "retrieve" /\ ~last.raised)
        => LET near == SelectSeq(last.results,
                           LAMBDA h : h.distance < RelevanceThreshold)
           IN  /\ Len(last.text) = Len(near)
               /\ \A i \in 1..Len(near) :
                      last.text[i] = [reference |-> i,
                                      text |-> near[i].id.hash]
               /\ (\A i \in DOMAIN last.results :
                       last.results[i].distance >= RelevanceThreshold)
                      => last.text = <<>>

C14_Witness ==
    /\ last.op = "retrieve"
    /\ ~last.raised
    /\ Len(last.results) = 2
    /\ last.results[1].distance = RelevanceThreshold
    /\ last.results[2].distance < RelevanceThreshold
    /\ Len(last.text) = 1
    /\ last.text[1].reference = 1

\* The turns of chat in which retrieve was called and raised or found
\* nothing
RetrievedNothing ==
    /\ last.op = "chat"
    /\ last.retrieved
    /\ (last.rag.raised \/ last.rag.text = <<>>)

\* The provider of such a turn is called with the user message alone, and a
\* retriever that raises is the cause of no exception: when one escapes, a
\* file write has failed or the provider has been called before.
RetrievalFailureUnaugmented ==
    RetrievedNothing
        => /\ last.prompt \in {strip(u) : u \in UserInputs}
           /\ last.raised =>
                 \/ last.fault
                 \/ last.invoked # <<>>

\* C15: when retrieve raises during a chat turn, the provider is called
\* with the user message alone, no exception escapes chat and the user
\* message and the assistant message are in the conversation and in its
\* file; when retrieve returns the empty text the provider is called with
\* the user message alone as well.
C15_RetrievalFailureContained ==
    RetrievedNothing
        => /\ last.prompt \in {strip(u) : u \in UserInputs}
           /\ last.rag.raised =>
                 /\ ~last.raised
                 /\ ActiveMessages # <<>>
                 /\ ActiveMessages[Len(ActiveMessages)]
                       = Message("assistant", last.response)
                 /\ max_messages >= 2 =>
                       /\ Len(ActiveMessages) >= 2
                       /\ ActiveMessages[Len(ActiveMessages) - 1]
                             = Message("user", last.prompt)
                 /\ load_conversations(disk) = conversations


-----------------------------------------------------------------------------
(* Personality settings.  update_personality and enhance_response driven   *)
(* on an engine; a level is a percentage, an argument that is not given is *)
(* NotGiven.                                                               *)

MaxPersonaSteps == 3   \* calls per behaviour

NotGiven == [given |-> FALSE, value |-> 0]
Given(v) == [given |-> TRUE, value |-> v]

\* Mutant: a level is only kept from falling below 0.
Clamp_NoUpperBound(level) == IF level < 0 THEN 0 ELSE level

\* min(max(level, 0.0), 1.0)
Clamp(level) == IF level < 0 THEN 0 ELSE IF level > 100 THEN 100 ELSE level

\* TARSEngine.update_personality: the configuration and the two levels of
\* the personality after it, and the dictionary it returns.
update_personality(cfg, humor_lvl, honesty_lvl, humor, honesty) ==
    LET cfg1 == IF humor.given
                THEN [cfg EXCEPT !.tars_humor_level = Clamp(humor.value)]
                ELSE cfg
        cfg2 == IF honesty.given
                THEN [cfg1 EXCEPT !.tars_honesty_level = Clamp(honesty.value)]
                ELSE cfg1
    IN  [config |-> cfg2,
         humor_level |-> IF humor.given THEN cfg2.tars_humor_level
                         ELSE humor_lvl,
         honesty_level |-> IF honesty.given THEN cfg2.tars_honesty_level
                           ELSE honesty_lvl,
         returned |-> [humor |-> cfg2.tars_humor_level,
                       honesty |-> cfg2.tars_honesty_level]]

HumorArgs == {NotGiven, Given(0 - 50), Given(0), Given(80), Given(150)}
HonestyArgs == {NotGiven, Given(0 - 20), Given(95), Given(120)}

\* The values of random.random() in one enhance_response, one of each
\* interval the code tells apart
PersonaDraws ==
    [honest : {5, 50}, sarcasm : {0, 70, 99}, humor_type : {0, 45, 70, 99},
     cue : {5, 50}]

\* The texts a provider returns
Responses == {<<"H", "i">>, <<>>}

\* What the humor stage adds to a response
HumorMarks ==
    {"<sarcastic prefix>", "<sarcastic suffix>", "<mission reference>"}

PersonaStep == steps < MaxPersonaSteps /\ steps' = steps + 1

InitPersonality ==
    /\ RagHost
    /\ RagDefault

UpdatePersonality(humor, honesty) ==
    /\ PersonaStep
    /\ \E r \in {update_personality(config, humor_level, honesty_level,
                                     humor, honesty)} :
           /\ config' = r.config
           /\ humor_level' = r.humor_level
           /\ honesty_level' = r.honesty_level
           /\ last' = [op |-> "update_personality", humor |-> humor,
                       honesty |-> honesty, returned |-> r.returned]
    /\ UNCHANGED <<StoreVars, gemini_available, primary_handler,
                   fallback_handlers, injected, EngineVars, now, faults>>

\* ResponseGenerator.enhance_response(response)
Enhance(response, d) ==
    /\ PersonaStep
    /\ \E r \in {enhance_response(response, d)} :
           last' = [op |-> "enhance", response |-> response, draws |-> d,
                    humor_level |-> humor_level, raised |-> r.raised,
                    text |-> r.text]
    /\ UNCHANGED <<StoreVars, RouterVars, PersonaVars, EngineVars, now,
                   faults>>

NextPersonality ==
    \/ \E humor \in HumorArgs, honesty \in HonestyArgs :
           UpdatePersonality(humor, honesty)
    \/ \E response \in Responses, d \in PersonaDraws : Enhance(response, d)

SpecPersonality == InitPersonality /\ [][NextPersonality]_vars

\* C16: while the humor level set by update_personality is 0, no
\* enhance_response adds a sarcastic prefix, a sarcastic suffix or a
\* mission reference, whatever the draws are.
C16_NoHumorAtZero ==
    (last.op = "enhance" /\ last.humor_level = 0)
        => /\ \A i \in DOMAIN last.text : last.text[i] \notin HumorMarks
           /\ config.tars_humor_level = 0

\* C23: after any sequence of update_personality calls, with arguments
\* below 0 and above 1 among them, the humor and honesty levels of the
\* configuration lie in [0, 1] and the humor controller and the honesty
\* module hold the same values as the configuration.
C23_LevelsClamped ==
    /\ config.tars_humor_level \in 0..100
    /\ config.tars_honesty_level \in 0..100
    /\ humor_level = config.tars_humor_level
    /\ honesty_level = config.tars_honesty_level
    /\ last.op = "update_personality" =>
           /\ last.humor.given => humor_level = Clamp(last.humor.value)
           /\ last.honesty.given => honesty_level = Clamp(last.honesty.value)
           /\ last.returned = [humor |-> humor_level,
                               honesty |-> honesty_level]

\* Both levels have been set from arguments outside [0, 1].
C23_Witness ==
    /\ last.op = "update_personality"
    /\ last.humor.given /\ last.humor.value > 100
    /\ last.honesty.given /\ last.honesty.value < 0
    /\ humor_level = 100
    /\ honesty_level = 0

C16_Witness ==
    /\ last.op = "enhance"
    /\ last.humor_level = 0
    /\ last.draws.sarcasm = 0
    /\ last.draws.humor_type = 45
    /\ ~last.raised
    /\ last.response # <<>>

\* C29: enhance_response returns a text for every response text, the
\* empty one included, under every outcome of its draws and every humor
\* and honesty level; it does not raise, and the text it returns contains
\* the response, up to the case of its first character.
C29_EnhanceTotal ==
    last.op = "enhance" =>
        /\ ~last.raised
        /\ \/ Contains(last.text, last.response)
           \/ /\ last.response # <<>>
              /\ Contains(last.text, lower_first(last.response).text)


-----------------------------------------------------------------------------
(* get_history called on a store that holds one conversation.              *)

MaxHistory == 3   \* messages of the conversation

HistoryContents == {<<"a">>, <<"b">>}

\* The max_messages arguments: not given, or a number from 0 to above the
\* length of the conversation
HistoryArgs == {NotGiven} \cup {Given(n) : n \in 0..(MaxHistory + 1)}

InitHistory ==
    /\ RouterDefault
    /\ EngineDefault
    /\ now = 0
    /\ steps = 0
    /\ faults = 0
    /\ last = [op |-> "init"]
    /\ max_messages = MaxHistory
    /\ auto_save = FALSE
    /\ persist_dir = FALSE
    /\ disk = EmptyDict
    /\ \E msgs \in SeqsUpTo([role : Roles, content : HistoryContents],
                             MaxHistory) :
           conversations =
               [c \in {TimeId(0)} |->
                   [i \in 1..Len(msgs) |->
                       Message(msgs[i].role, msgs[i].content)]]
    /\ active_conversation_id \in {None, TimeId(0)}

\* MemoryStore.get_history(conversation_id, max_messages); a max_messages
\* that is not given is None, which Conversation.get_history reads as 0.
GetHistory(cid, n) ==
    /\ last' = [op |-> "get_history", arg |-> cid, n |-> n,
                returned |-> get_history(TheStore, cid,
                                         IF n.given THEN n.value ELSE 0)]
    /\ UNCHANGED <<StoreVars, RouterVars, PersonaVars, EngineVars, now, steps,
                   faults>>

NextHistory ==
    \E cid \in {None, TimeId(0), TimeId(1)}, n \in HistoryArgs :
        GetHistory(cid, n)

SpecHistory == InitHistory /\ [][NextHistory]_vars

\* The messages of the conversation that the last get_history was about,
\* none when there is no such conversation
HistoryTarget ==
    LET c == IF last.arg # None THEN last.arg ELSE active_conversation_id
    IN  IF c \in DOMAIN conversations THEN conversations[c] ELSE <<>>

\* The last k of msgs as {role, content} pairs, in stored order
LastPairs(msgs, k) ==
    [i \in 1..k |-> [role |-> msgs[Len(msgs) - k + i].role,
                     content |-> msgs[Len(msgs) - k + i].content]]

\* get_history with a positive max_messages returns the last
\* min(max_messages, length) messages, and all of them without one.
GetHistoryPositive ==
    (last.op = "get_history" /\ (last.n.given => last.n.value > 0))
        => last.returned =
              LastPairs(HistoryTarget,
                        IF last.n.given /\ last.n.value < Len(HistoryTarget)
                        THEN last.n.value ELSE Len(HistoryTarget))

\* C19: get_history with max_messages = n returns, for every n >= 0, the
\* last min(n, length) messages of the conversation in stored order as
\* {role, content} pairs, and all messages when max_messages is not given.
C19_HistoryWindow ==
    last.op = "get_history"
        => last.returned =
              LastPairs(HistoryTarget,
                        IF last.n.given /\ last.n.value < Len(HistoryTarget)
                        THEN last.n.value ELSE Len(HistoryTarget))


-----------------------------------------------------------------------------
(* The fallback list of a router as constructed.                           *)

\* The place of a handler kind in the priority order lm_studio, ollama,
\* gemini, openai
PriorityRank(kind) ==
    IF kind = "lm_studio" THEN 1
    ELSE IF kind = "ollama" THEN 2
    ELSE IF kind = "gemini" THEN 3
    ELSE 4

\* C24: the fallback list built by the constructor of the router holds no
\* handler of the kind of the primary handler, holds a gemini or openai
\* handler only if its key is configured, and is in the order lm_studio,
\* ollama, gemini, openai.
C24_FallbackList ==
    ~injected =>
        /\ \A i \in DOMAIN fallback_handlers :
               /\ fallback_handlers[i] # primary_handler
               /\ fallback_handlers[i] \in ConcreteKinds
               /\ fallback_handlers[i] = "gemini" => config.gemini_api_key
               /\ fallback_handlers[i] = "openai" => config.openai_api_key
        /\ \A i, j \in DOMAIN fallback_handlers :
               i < j => PriorityRank(fallback_handlers[i])
                           < PriorityRank(fallback_handlers[j])

\* A router with primary ollama, a gemini key and no openai key falls back
\* to lm_studio and then gemini.
C24_Witness ==
    /\ ~injected
    /\ primary_handler = "ollama"
    /\ config.gemini_api_key
    /\ ~config.openai_api_key
    /\ fallback_handlers = <<"lm_studio", "gemini">>


-----------------------------------------------------------------------------
(* Turns of an engine built over a store (the memory_store argument of the *)
(* constructor) whose active conversation already holds messages.          *)

MaxStored == 22            \* messages of the conversation at the start
DefaultMaxMessages == 50   \* max_messages_per_conversation

\* The i-th message of the conversation at the start
StoredMessage(i) ==
    Message(IF i % 2 = 1 THEN "user" ELSE "assistant", <<ToString(i)>>)

InitWindow ==
    /\ RouterDefault
    /\ humor_level = DefaultHumor
    /\ honesty_level = DefaultHonesty
    /\ use_rag \in BOOLEAN
    /\ rag_system = use_rag
    /\ turns = 0
    /\ gen = NoGen
    /\ RagDefault
    /\ now = 0
    /\ steps = 0
    /\ faults = 0
    /\ last = [op |-> "init"]
    /\ auto_save = FALSE
    /\ persist_dir = FALSE
    /\ disk = EmptyDict
    /\ max_messages \in {2, DefaultMaxMessages}
    /\ active_conversation_id = TimeId(0)
    /\ \E k \in 0..MaxStored :
           /\ k <= max_messages
           /\ conversations =
                  [c \in {TimeId(0)} |-> [i \in 1..k |-> StoredMessage(i)]]

\* The environments of a chat turn whose primary handler answers
WindowEnvs(user_input) ==
    {env \in TurnEnvs(user_input) :
        env.outs.primary.ok => env.outs.primary.text = <<"H", "i">>}

\* Chat turns and chat_stream turns whose consumer stops after the first
\* chunk.
NextWindow ==
    \/ \E user_input \in UserInputs :
          \E env \in WindowEnvs(user_input) :
              Chat(user_input, TRUE, env, NoDraws)
    \/ \E user_input \in UserInputs :
          \E env \in StartEnvs(user_input) : StreamStart(user_input, env)
    \/ StreamClose

SpecWindow == InitWindow /\ [][NextWindow]_vars

\* The smallest of three numbers
Min3(a, b, c) ==
    IF a <= b /\ a <= c THEN a ELSE IF b <= c THEN b ELSE c

\* The texts a handler can get as the message of a turn: a trimmed user
\* input, alone or in the augmented prompt
TurnMessages ==
    {strip(u) : u \in UserInputs}
    \cup {augmented_input(r.text, strip(u)) :
              r \in RagOutcomes, u \in UserInputs}

\* C25: the message list built in a chat turn and in the first step of a
\* chat_stream turn is the system prompt, then the stored messages that
\* precede the user message of the turn (the most recent of them, at most
\* one less than the window, in stored order), then the user message of
\* the turn, which is nowhere else in the list.
C25_MessageList ==
    [][(/\ last'.op \in {"chat", "chat_stream"}
        /\ last'.path \in {"chat", "stream"}
        /\ last'.op = "chat_stream" => last'.call = "start"
        /\ last'.invoked # <<>>) =>
           LET before == conversations[active_conversation_id]
               n == Min3(Len(before), max_messages - 1, HistoryWindow - 1)
               m == last'.messages
           IN  /\ Len(m) = n + 2
               /\ m[1] = [role |-> "system", content |-> system_prompt]
               /\ \A i \in 1..n : m[i + 1] = LastPairs(before, n)[i]
               /\ m[Len(m)].role = "user"
               /\ m[Len(m)].content \in TurnMessages
               /\ last'.op = "chat" => m[Len(m)].content = last'.prompt]_vars

\* A chat turn on a conversation longer than the window: the list holds
\* the system prompt, one message less than the window, and the message.
C25_Witness ==
    /\ last.op = "chat"
    /\ last.path = "chat"
    /\ Len(last.messages) = HistoryWindow + 1
    /\ Len(ActiveMessages) > HistoryWindow + 1

=============================================================================
